---- MODULE Spec2Model ----
(***************************************************************************)
(* Model of video-salad-core: the output container (MixingBowl), its       *)
(* execution status log, and the lifecycle of the engine commands that     *)
(* mix() creates; the argument list mix() synthesizes; the stream          *)
(* ingredients (tracks) with their overlays of pending changes; and the    *)
(* source container (IngredientBowl) with its copied tracks.               *)
(***************************************************************************)
EXTENDS Integers, Sequences, FiniteSets, TLC

\* ---------------------------------------------------------------- bounds
MaxIngredients == 2   \* longest track list of the output container
MaxExec == 2          \* engine command objects created by mix()
MaxLog == 4           \* longest status log explored
MaxTrackOps == 3      \* track and source-container operations in one behaviour
MaxBowls == 4         \* Bowl objects constructed in one behaviour
MaxBatch == 2         \* longest list of files given to importBowls

\* ------------------------------------------------------- static universe
\* Stream ingredients known to the process, by id.
Tracks == {1, 2}

\* Ingredient.filePath: the two tracks were probed from different files.
filePath(t) == IF t = 1 THEN "a.mkv" ELSE "b.mkv"

\* Values the output path takes ('' is the constructor's default).
OutputPaths == {"", "a.mkv", "out.mkv"}

\* Entries of the chapter list and their overridable fields (Partial<Chapter>).
Chapters == {1}
ChapterFields == {"timeBase", "start", "end", "title"}

Terminal == {"done", "canceled", "error"}

\* The probed streams: stream 1 is the video stream of a.mkv, streams 2 and 3
\* are the audio and the subtitle stream of b.mkv.  The original track of
\* stream n has id n.
Streams == {1, 2, 3}

\* StreamIngredient.type, from ffProbeStream.codec_type
type(n) == IF n = 1 THEN "video" ELSE IF n = 2 THEN "audio" ELSE "subtitle"

\* ffProbeStream.index: the position of the stream within its file
probedIndex(n) == IF n = 3 THEN 1 ELSE 0

\* Values the delay setter is called with.
Delays == {0, 1}

\* Tag names written and read; values written ("undefined" is the explicit
\* unset); "absent" is a key that is not there.
TagNames == {"title", "language"}
TagValues == {"undefined", "x"}
Absent == "absent"

\* Bit rate a caller asks for.
Bitrate == 192000

\* An options object of convert(): codec is a string; each optional field is
\* the set of its values, empty when the object has no such key.  The
\* numbers of compression_level and frame_duration are written in halves
\* (5 is 2.5, 20 is 10), so that 2.5 and 5.5 are values.
request(c, b) ==
    [codec |-> c, bitrate |-> b, compression_level |-> {}, frame_duration |-> {},
     vbr |-> {}]

\* The conversion requests passed to convert() while tracks are written and
\* copied.
ConversionRequests ==
    {request("opus", {}), request("opus", {Bitrate}), request("aac", {})}

\* The options objects passed to convert() where its validation is looked
\* at: opus with bit rates 0, -1 and Bitrate and compression levels 10, 11 and 5.5;
\* opus with frame durations 2.5 and 3 and vbr on and an unknown word; the
\* codecs aac and flac.
ConversionOptions ==
    {[request("opus", b) EXCEPT !.compression_level = c] :
        b \in {{}, {0}, {-1}, {Bitrate}}, c \in {{}, {20}, {22}, {11}}}
    \cup {[request("opus", {}) EXCEPT !.frame_duration = f, !.vbr = v] :
        f \in {{}, {5}, {6}}, v \in {{}, {"on"}, {"fast"}}}
    \cup {request("aac", {}), request("flac", {Bitrate})}

\* Disposition objects a caller assigns.
Dispositions == {"+default", "-default"}

\* Tags objects a caller passes to the tags setter: an object literal, an
\* object the caller keeps and passes again, or the tags object of the probed
\* stream (IngredientBowl.ffProbeData.streams[n].tags).
TagsArguments == {"literal", "caller", "probe"}

\* ChaptersIngredient.filePath of the chapter list given to the container.
chaptersFilePath == "b.mkv"

\* The files given to importBowls: two media files, a path without read
\* access, a directory, and a file ffprobe fails on.
ImportFiles == {"a.mkv", "b.mkv", "missing.mkv", "dir", "text.txt"}

\* The value of an id a caller leaves out.
undefined == -1

\* The id of the ChaptersIngredient Initialize constructs for a file (the
\* model numbers chapter lists apart from tracks).
chaptersIngredientId(f) == IF f = "a.mkv" THEN 101 ELSE 102

\* new VideoSaladNotFoundError(type, id), new VideoSaladImportBowlError(errors),
\* and a call that returned.
NotFound(kind, id) ==
    [error |-> "VideoSaladNotFoundError", type |-> kind, id |-> id,
     bowlImportErrors |-> <<>>]

ImportBowlError(errors) ==
    [error |-> "VideoSaladImportBowlError", type |-> "", id |-> undefined,
     bowlImportErrors |-> errors]

NoError == [error |-> "none", type |-> "", id |-> undefined, bowlImportErrors |-> <<>>]

VARIABLES
    output,          \* Bowl.filePath of the MixingBowl
    ingredients,     \* Bowl.allIngredients: sequence of track ids
    chapters,        \* Bowl.chaptersIngredient: TRUE when a list is assigned
    chapterChanges,  \* ChaptersIngredientChapter.changes, per entry: set of overridden fields
    statusHistory,   \* MixingBowl.statusHistory
    ffmpegCommand,   \* MixingBowl.ffmpegCommand: 0 (undefined) or a command id
    proc,            \* per command id: state of the command / its subprocess
    nextCmd,         \* id of the next command object mix() creates
    logBy,           \* history: which command each log entry was appended for
    lastOp,          \* history: the last operation or event and its outcome
    args,            \* the options the operation just run handed to the command
    ffProbeStream,   \* per stream: the probed snapshot (FfprobeStream)
    trk,             \* per track id: the fields of the StreamIngredient object
    tagObj,          \* heap of Tags objects: per track id its own, 0 the caller's
    NEXT_ID,         \* Ingredient.NEXT_ID
    bowl,            \* IngredientBowl of b.mkv: allIngredients, track ids
    nOps,            \* number of track / source-container operations so far
    ingredientBowlMap, \* VideoSalad.ingredientBowlMap: bowl id -> removed, file
    mixingBowlMap,   \* VideoSalad.mixingBowlMap: bowl id -> removed
    BowlNEXT_ID,     \* Bowl.NEXT_ID
    metadata,        \* Bowl.metadata of the MixingBowl
    initResults,     \* importIngredientBowls: the Initialize promises of the batch
    thrown           \* what the last VideoSalad call threw or was rejected with

vars == <<output, ingredients, chapters, chapterChanges, statusHistory,
          ffmpegCommand, proc, nextCmd, logBy, lastOp,
          args, ffProbeStream, trk, tagObj, NEXT_ID, bowl, nOps,
          ingredientBowlMap, mixingBowlMap, BowlNEXT_ID, metadata, initResults,
          thrown>>

trackVars == <<ffProbeStream, trk, tagObj, NEXT_ID, bowl, nOps>>

execVars == <<statusHistory, ffmpegCommand, proc, nextCmd, logBy>>

saladVars == <<ingredientBowlMap, mixingBowlMap, BowlNEXT_ID, metadata,
               initResults, thrown>>

\* ------------------------------------------------------------- helpers
\* MixingBowlStatus with the optional fields as presence flags.
IdleStatus == [state |-> "idle", fullFfmpegCommand |-> FALSE,
               codecData |-> FALSE, progress |-> FALSE, error |-> FALSE]

\* get status(): the last element of statusHistory.
status == statusHistory[Len(statusHistory)]

Op(name, e, err, ids, cb, sig) ==
    [op |-> name, exec |-> e, err |-> err, ids |-> ids, cb |-> cb, sig |-> sig]

\* ChaptersIngredientChapter.isModified
isModified(changes) == Cardinality(changes) > 0

\* The timeBase and title getters read `changes.x ?? this.x`, i.e. they call
\* themselves when no override is stored: the read never returns.
timeBaseReturns(changes) == "timeBase" \in changes
titleReturns(changes) == "title" \in changes

\* ChaptersIngredient.buildChaptersText: "undefined" (no custom text),
\* "custom" or "RangeError" (a getter exhausted the call stack).
buildChaptersText ==
    IF ~chapters THEN "undefined"
    ELSE IF ~(\E i \in Chapters : isModified(chapterChanges[i])) THEN "undefined"
    ELSE IF \A i \in Chapters :
                timeBaseReturns(chapterChanges[i]) /\ titleReturns(chapterChanges[i])
         THEN "custom"
         ELSE "RangeError"

\* Keys of ingredientInputsMap: the file paths of the selected tracks.
ingredientInputsMapKeys == {filePath(ingredients[i]) : i \in 1..Len(ingredients)}

collidingIds_firstOnly ==
    LET all == SelectSeq(ingredients, LAMBDA t : filePath(t) = output)
    IN  IF Len(all) = 0 THEN all ELSE <<all[1]>>

\* The ids handed to BowlMixInvalidOutputError.
collidingIds == SelectSeq(ingredients, LAMBDA t : filePath(t) = output)

\* ------------------------------------------------------------ track objects
\* A Tags object without keys.
EmptyTags == [n \in TagNames |-> Absent]

\* The FfprobeStream object of stream n as ffprobe returned it.
probed(n) ==
    [index |-> probedIndex(n), codec_type |-> type(n),
     codec_name |-> IF n = 1 THEN "h264" ELSE IF n = 2 THEN "aac" ELSE "ass",
     tags |-> [m \in TagNames |-> IF m = "title" THEN "p" ELSE "eng"],
     disposition |-> "+default"]

\* conversionChanges = {}
NoConversion == request("none", {})

\* new XIngredient(filePath, ffProbeStream, isOriginal): changes = {} and
\* conversionChanges = {}.  `stream` is the reference to the FfprobeStream;
\* `tags` tells which Tags object changes.tags refers to ("none", the
\* track's "own", or the "caller"'s); `title` is changes.title.
newIngredient(path, n, original) ==
    [filePath |-> path, isOriginal |-> original, stream |-> n,
     tags |-> "none", title |-> Absent, dispositions |-> "none", delay |-> 0,
     codec |-> "none", bitrate |-> 0, conversionChanges |-> NoConversion]

\* The tracks that exist.
Ids == DOMAIN trk

\* changes.tags ?? {} of track t
changesTags(t) ==
    IF trk[t].tags = "none" THEN EmptyTags
    ELSE IF trk[t].tags = "own" THEN tagObj[t]
    ELSE IF trk[t].tags = "caller" THEN tagObj[0]
    ELSE ffProbeStream[trk[t].stream].tags

\* Reading a key of a Tags object: a key that is not there reads undefined.
read(o, name) == IF o[name] = Absent THEN "undefined" ELSE o[name]

\* Object.assign(target, source): the keys of source overwrite.
assign(target, source) ==
    [n \in TagNames |-> IF source[n] # Absent THEN source[n] ELSE target[n]]

\* get tags(): Object.assign({}, ffProbeStream.tags, changes.tags)
tags(t) == assign(assign(EmptyTags, ffProbeStream[trk[t].stream].tags), changesTags(t))

\* getTag(tagName): changes.tags[tagName] ?? this.tags[tagName]
getTag(t, name) ==
    IF read(changesTags(t), name) # "undefined" THEN read(changesTags(t), name)
    ELSE read(tags(t), name)

\* get title() of StreamIngredient.  VideoIngredient declares a title setter
\* and no getter, so its title property has no getter: it reads undefined.
title(t) ==
    IF type(trk[t].stream) = "video" THEN "undefined" ELSE getTag(t, "title")

\* get language()
language(t) == getTag(t, "language")

\* get dispositions(): the changed dispositions or the flags probed as 1
dispositions(t) ==
    IF trk[t].dispositions # "none" THEN trk[t].dispositions
    ELSE ffProbeStream[trk[t].stream].disposition

\* AudioIngredient: get codec()
codec(t) ==
    IF trk[t].codec # "none" THEN trk[t].codec
    ELSE ffProbeStream[trk[t].stream].codec_name

\* get delay(): changes.delay ?? 0
delay(t) == trk[t].delay

\* get index()
index(t) == ffProbeStream[trk[t].stream].index

\* ------------------------------------------------------ option synthesis
\* One option of the argument list together with its argument.  slot is the
\* output stream specifier, input and stream the two sides of `k:s`, num a
\* numeric argument, name and value the two sides of `name=value`; pad tells
\* whether the one-space workaround appended a space to the value.
Option(opt, slot, input, stream, num, name, value, pad) ==
    [opt |-> opt, slot |-> slot, input |-> input, stream |-> stream,
     num |-> num, name |-> name, value |-> value, pad |-> pad]

\* `${value}`.split(' ').length - 1: the values written hold no space.
valueSpacesCount(v) == 0

\* "Apply metadata changes": the options of one entry of changes.tags
metadataOption(N, name, v) ==
    IF v = Absent THEN <<>>
    ELSE IF v = "undefined"
         THEN <<Option("-metadata:s", N, -1, -1, 0, name, "", FALSE)>>
         ELSE <<Option("-metadata:s", N, -1, -1, 0, name, v, valueSpacesCount(v) = 1)>>

\* "Apply disposition"
dispositionOption(t, N) ==
    IF trk[t].dispositions = "none" THEN <<>>
    ELSE <<Option("-disposition", N, -1, -1, 0, "", trk[t].dispositions, FALSE)>>

\* StreamIngredient.buildOptions(ingredientInputIndex, expectedIngredientIndex).
\* The condition that guards the stream copy option is always true; no
\* operation registers custom options.  The entries of changes.tags are
\* listed title first.
streamOptions(t, k, N) ==
    <<Option("-map", -1, k, index(t), 0, "", "", FALSE),
      Option("-c", N, -1, -1, 0, "", "copy", FALSE),
      Option("-map_metadata:s", N, k, index(t), 0, "", "", FALSE)>>
    \o metadataOption(N, "title", changesTags(t)["title"])
    \o metadataOption(N, "language", changesTags(t)["language"])
    \o dispositionOption(t, N)

\* `if (field)` on a numeric field: the key is there and its value is not 0.
truthy(field) == \E v \in field : v # 0

\* The option of a numeric field that is truthy, none otherwise.
numberOption(opt, N, field) ==
    IF truthy(field)
    THEN <<Option(opt, N, -1, -1, CHOOSE v \in field : TRUE, "", "", FALSE)>>
    ELSE <<>>

\* AudioIngredient.handleOpusConversion(index, changes)
handleOpusConversion(N, changes) ==
    <<Option("-c", N, -1, -1, 0, "", "libopus", FALSE)>>
    \o numberOption("-compression_level", N, changes.compression_level)
    \o numberOption("-frame_duration", N, changes.frame_duration)
    \o (IF changes.vbr # {}
        THEN <<Option("-vbr", N, -1, -1, 0, "", CHOOSE v \in changes.vbr : TRUE, FALSE)>>
        ELSE <<>>)

\* AudioIngredient.buildOptions: the stream options, then the conversion
\* (convert() lets no codec but opus into conversionChanges).
audioOptions(t, N) ==
    (IF trk[t].conversionChanges.codec = "opus"
     THEN handleOpusConversion(N, trk[t].conversionChanges) ELSE <<>>)
    \o numberOption("-b", N, trk[t].conversionChanges.bitrate)

\* buildOptions of track t, dispatched on its class.
buildOptions(t, k, N) ==
    streamOptions(t, k, N)
    \o (IF type(trk[t].stream) = "audio" THEN audioOptions(t, N) ELSE <<>>)

inputKey_pathOnly(i) == <<trk[ingredients[i]].filePath, 0>>

\* The key of ingredientInputsMap under which the track at position i of the
\* container is grouped: (file path, delay).
inputKey(i) == <<trk[ingredients[i]].filePath, delay(ingredients[i])>>

inputKeys == {inputKey(i) : i \in 1..Len(ingredients)}

\* Position at which file path p is first inserted into ingredientInputsMap.
firstAt(p) ==
    CHOOSE i \in 1..Len(ingredients) :
        /\ trk[ingredients[i]].filePath = p
        /\ \A j \in 1..(i - 1) : trk[ingredients[j]].filePath # p

\* Enumeration order of Object.entries(ingredientInputsMap) and of
\* Object.values of an entry: file paths in insertion order; the delays of
\* one path, being non-negative integer keys, in ascending numeric order.
keyBefore(k1, k2) ==
    IF k1[1] # k2[1] THEN firstAt(k1[1]) < firstAt(k2[1]) ELSE k1[2] < k2[2]

\* The value of absoluteInputIndex when the input of key k is added.
absoluteInputIndex(k) ==
    1 + Cardinality({k2 \in inputKeys : keyBefore(k2, k)})

\* The key of the n-th file input.
inputAt(n) == CHOOSE k \in inputKeys : absoluteInputIndex(k) = n

\* Line 748: a track is pushed onto its group unless a track with the same
\* id is already in it.
added(i) == \A j \in 1..(i - 1) : ingredients[j] # ingredients[i]

\* The elements of a set of integers in ascending order.
ascending(S) ==
    [r \in 1..Cardinality(S) |->
        CHOOSE x \in S : Cardinality({y \in S : y < x}) = r - 1]

\* An element of optionsList.
Tagged(eii, options) == [expectedIngredientIndex |-> eii, options |-> options]

RECURSIVE groupOptions(_, _, _)
groupOptions(n, idxs, r) ==
    IF r > Len(idxs) THEN <<>>
    ELSE <<Tagged(idxs[r] - 1, buildOptions(ingredients[idxs[r]], n, idxs[r] - 1))>>
         \o groupOptions(n, idxs, r + 1)

inputOptionsOf_noOffset(n) ==
    <<Option("-i", -1, -1, -1, 0, "", inputAt(n)[1], FALSE)>>

\* What the body of the forEach at lines 815-847 adds for the n-th input.
inputOptionsOf(n) ==
    (IF inputAt(n)[2] # 0
     THEN <<Option("-itsoffset", -1, -1, -1, inputAt(n)[2], "", "", FALSE)>>
     ELSE <<>>)
    \o <<Option("-i", -1, -1, -1, 0, "", inputAt(n)[1], FALSE)>>

optionsListOf_anyDelay(n) ==
    (IF chapters /\ chaptersFilePath = inputAt(n)[1] /\ buildChaptersText = "undefined"
     THEN <<Tagged(-1, <<Option("-map_chapters", -1, n, -1, 0, "", "", FALSE)>>)>>
     ELSE <<>>)
    \o groupOptions(n, ascending({i \in 1..Len(ingredients) :
                                     added(i) /\ inputKey(i) = inputAt(n)}), 1)

optionsListOf(n) ==
    (IF inputAt(n)[2] = 0 /\ chapters /\ chaptersFilePath = inputAt(n)[1]
        /\ buildChaptersText = "undefined"
     THEN <<Tagged(-1, <<Option("-map_chapters", -1, n, -1, 0, "", "", FALSE)>>)>>
     ELSE <<>>)
    \o groupOptions(n, ascending({i \in 1..Len(ingredients) :
                                     added(i) /\ inputKey(i) = inputAt(n)}), 1)

RECURSIVE inputOptionsUpTo(_)
inputOptionsUpTo(n) ==
    IF n = 0 THEN <<>> ELSE inputOptionsUpTo(n - 1) \o inputOptionsOf(n)

RECURSIVE optionsListUpTo(_)
optionsListUpTo(n) ==
    IF n = 0 THEN <<>> ELSE optionsListUpTo(n - 1) \o optionsListOf(n)

inputOptions == inputOptionsUpTo(Cardinality(inputKeys))

optionsList == optionsListUpTo(Cardinality(inputKeys))

sort_none(l) == l

\* Array.prototype.sort by expectedIngredientIndex (a stable sort).
sort(l) ==
    LET rank(j) == Cardinality({m \in 1..Len(l) :
                       \/ l[m].expectedIngredientIndex < l[j].expectedIngredientIndex
                       \/ /\ l[m].expectedIngredientIndex = l[j].expectedIngredientIndex
                          /\ m < j})
    IN  [r \in 1..Len(l) |-> l[CHOOSE j \in 1..Len(l) : rank(j) = r - 1]]

RECURSIVE flat(_)
flat(l) == IF Len(l) = 0 THEN <<>> ELSE Head(l).options \o flat(Tail(l))

\* finalOptions.flat(): the input options, then the sorted option groups.
\* The container of the model carries no tags of its own.
finalOptions == inputOptions \o flat(sort(optionsList))

\* What mix() gives the command: input(metadataStream), the chapter input,
\* then addOptions(finalOptions.flat()).
commandArguments ==
    <<Option("-i", -1, -1, -1, 0, "", "metadataStream", FALSE)>> \o finalOptions

\* ---------------------------------------------------------------- Init
InitObjects ==
    /\ output \in OutputPaths
    /\ ingredients = <<>>
    /\ chapters = FALSE
    /\ chapterChanges = [i \in Chapters |-> {}]
    /\ statusHistory = <<IdleStatus>>
    /\ ffmpegCommand = 0
    /\ proc = [e \in 1..MaxExec |-> "unused"]
    /\ nextCmd = 1
    /\ logBy = <<0>>
    /\ lastOp = Op("new", 0, "none", <<>>, FALSE, FALSE)
    /\ args = <<>>
    /\ ffProbeStream = [n \in Streams |-> probed(n)]
    /\ trk = [t \in Streams |-> newIngredient(filePath(t), t, TRUE)]
    /\ tagObj = [t \in {0} \cup Streams |->
                    IF t = 0 THEN [EmptyTags EXCEPT !["title"] = "x"] ELSE EmptyTags]
    /\ NEXT_ID = 4
    /\ bowl = <<2, 3>>
    /\ nOps = 0
    /\ metadata = "undefined"
    /\ initResults = <<>>
    /\ thrown = NoError

\* new VideoSalad(): both registries are empty.
Init ==
    /\ InitObjects
    /\ ingredientBowlMap = <<>>
    /\ mixingBowlMap = <<>>
    /\ BowlNEXT_ID = 0

\* An operation that synthesizes no options and touches no track.
quiet == args' = <<>> /\ UNCHANGED trackVars /\ UNCHANGED saladVars

\* ------------------------------------------------- container operations
\* set output(outputPath)
setOutput(p) ==
    /\ output' = p
    /\ lastOp' = Op("edit", 0, "none", <<>>, FALSE, FALSE)
    /\ UNCHANGED <<ingredients, chapters, chapterChanges, execVars>>
    /\ quiet

\* addIngredient(ingredient)
addIngredient(t) ==
    /\ Len(ingredients) < MaxIngredients
    /\ ingredients' = Append(ingredients, t)
    /\ lastOp' = Op("edit", 0, "none", <<>>, FALSE, FALSE)
    /\ UNCHANGED <<output, chapters, chapterChanges, execVars>>
    /\ quiet

indexOf(s, t) ==
    IF \E i \in 1..Len(s) : s[i] = t
    THEN CHOOSE i \in 1..Len(s) : s[i] = t /\ \A j \in 1..(i - 1) : s[j] # t
    ELSE 0

splice(s, i) == [j \in 1..(Len(s) - 1) |-> IF j < i THEN s[j] ELSE s[j + 1]]

\* removeIngredient(ingredient)
removeIngredient(t) ==
    /\ ingredients' = IF indexOf(ingredients, t) = 0 THEN ingredients
                      ELSE splice(ingredients, indexOf(ingredients, t))
    /\ lastOp' = Op("edit", 0, "none", <<>>, FALSE, FALSE)
    /\ UNCHANGED <<output, chapters, chapterChanges, execVars>>
    /\ quiet

\* set chapters(chaptersIngredient)
setChapters(c) ==
    /\ chapters' = c
    /\ lastOp' = Op("edit", 0, "none", <<>>, FALSE, FALSE)
    /\ UNCHANGED <<output, ingredients, chapterChanges, execVars>>
    /\ quiet

\* ChaptersIngredientChapter setters (start, end, timeBase, title)
setChapterField(i, f) ==
    /\ chapterChanges' = [chapterChanges EXCEPT ![i] = @ \cup {f}]
    /\ lastOp' = Op("edit", 0, "none", <<>>, FALSE, FALSE)
    /\ UNCHANGED <<output, ingredients, chapters, execVars>>
    /\ quiet

\* What a track or source-container operation leaves alone in the output
\* container, and the count of these operations.
trackOp(name, t, err) ==
    /\ t \in Ids
    /\ nOps < MaxTrackOps
    /\ nOps' = nOps + 1
    /\ lastOp' = Op(name, t, err, <<>>, FALSE, FALSE)
    /\ UNCHANGED <<output, ingredients, chapters, chapterChanges, execVars>>
    /\ UNCHANGED saladVars

\* set delay(seconds) of a video, audio or subtitle track
setDelay(t, d) ==
    /\ trackOp("setDelay", t, "none")
    /\ trk' = [trk EXCEPT ![t].delay = d]
    /\ args' = <<>>
    /\ UNCHANGED <<ffProbeStream, tagObj, NEXT_ID, bowl>>

\* --------------------------------------------------------- track operations
\* The write `changes.tags... = ...` seen from the heap: the Tags object that
\* changes.tags refers to gets the content `new`; a track without
\* changes.tags first gets an object of its own.
storeTags(t, new) ==
    /\ trk' = [trk EXCEPT ![t].tags = IF @ = "none" THEN "own" ELSE @]
    /\ IF trk[t].tags \in {"none", "own"} THEN
           /\ tagObj' = [tagObj EXCEPT ![t] = new]
           /\ UNCHANGED ffProbeStream
       ELSE IF trk[t].tags = "caller" THEN
           /\ tagObj' = [tagObj EXCEPT ![0] = new]
           /\ UNCHANGED ffProbeStream
       ELSE
           /\ ffProbeStream' = [ffProbeStream EXCEPT ![trk[t].stream].tags = new]
           /\ UNCHANGED tagObj

\* setTag(tagName, tagValue)
setTag(t, name, v) ==
    /\ trackOp("setTag", t, "none")
    /\ storeTags(t, [changesTags(t) EXCEPT ![name] = v])
    /\ args' = <<>>
    /\ UNCHANGED <<NEXT_ID, bowl>>

\* set title(title): StreamIngredient writes changes.tags.title,
\* VideoIngredient overrides the setter and writes changes.title.
setTitle(t, v) ==
    /\ trackOp("setTitle", t, "none")
    /\ IF type(trk[t].stream) = "video"
       THEN /\ trk' = [trk EXCEPT ![t].title = v]
            /\ UNCHANGED <<tagObj, ffProbeStream>>
       ELSE storeTags(t, [changesTags(t) EXCEPT !["title"] = v])
    /\ args' = <<>>
    /\ UNCHANGED <<NEXT_ID, bowl>>

\* set language(language): undefined is stored as ''.
setLanguage(t, v) ==
    /\ trackOp("setLanguage", t, "none")
    /\ storeTags(t, [changesTags(t) EXCEPT
                        !["language"] = IF v = "undefined" THEN "" ELSE v])
    /\ args' = <<>>
    /\ UNCHANGED <<NEXT_ID, bowl>>

\* The content of the Tags object the caller passes.
tagsArgument(t, a) ==
    IF a = "literal" THEN [EmptyTags EXCEPT !["title"] = "x"]
    ELSE IF a = "caller" THEN tagObj[0]
    ELSE ffProbeStream[trk[t].stream].tags

\* set tags(tags): a track without changes.tags keeps the object it is
\* given; otherwise the keys of the object are assigned to changes.tags.
setTags(t, a) ==
    /\ trackOp("setTags", t, "none")
    /\ IF trk[t].tags = "none" THEN
           /\ trk' = [trk EXCEPT ![t].tags = IF a = "literal" THEN "own" ELSE a]
           /\ tagObj' = IF a = "literal"
                        THEN [tagObj EXCEPT ![t] = tagsArgument(t, a)] ELSE tagObj
           /\ UNCHANGED ffProbeStream
       ELSE storeTags(t, assign(changesTags(t), tagsArgument(t, a)))
    /\ args' = <<>>
    /\ UNCHANGED <<NEXT_ID, bowl>>

\* set dispositions(disposition)
setDispositions(t, d) ==
    /\ trackOp("setDispositions", t, "none")
    /\ trk' = [trk EXCEPT ![t].dispositions = d]
    /\ args' = <<>>
    /\ UNCHANGED <<ffProbeStream, tagObj, NEXT_ID, bowl>>

\* AudioIngredient: set bitrate(value)
setBitrate(t, value) ==
    /\ trackOp("setBitrate", t, "none")
    /\ type(trk[t].stream) = "audio"
    /\ trk' = [trk EXCEPT ![t].codec = codec(t), ![t].bitrate = value]
    /\ args' = <<>>
    /\ UNCHANGED <<ffProbeStream, tagObj, NEXT_ID, bowl>>

\* ajv validate(options) against opusConversionOptionsSchema: bitrate a
\* number >= 0, vbr one of three words, compression_level a number in 0..10,
\* frame_duration one of six numbers.
validate(options) ==
    /\ \A v \in options.bitrate : v >= 0
    /\ options.vbr \subseteq {"off", "on", "constrained"}
    /\ \A v \in options.compression_level : 0 <= v /\ v <= 20
    /\ options.frame_duration \subseteq {5, 10, 20, 40, 80, 120}

\* AudioIngredient.convertAudio: whether it throws.
convertAudio(options) == truthy(options.bitrate) /\ \E v \in options.bitrate : v <= 0

convertError_anyCodec(t, options) ==
    IF type(trk[t].stream) # "audio" THEN "none"
    ELSE IF ~validate(options) THEN "Invalid OPUS conversion options"
    ELSE IF convertAudio(options) THEN "Unsupported bitrate"
    ELSE "none"

\* The message of the Error convert(options) throws, "none" when it stores
\* the options.  AudioIngredient.convert lets opus through to convertOpus
\* and convertAudio; the other classes inherit StreamIngredient.convert,
\* which stores any options.
convertError(t, options) ==
    IF type(trk[t].stream) # "audio" THEN "none"
    ELSE IF options.codec # "opus" THEN "Unsupported audio codec"
    ELSE IF ~validate(options) THEN "Invalid OPUS conversion options"
    ELSE IF convertAudio(options) THEN "Unsupported bitrate"
    ELSE "none"

convertRejects(t, options) == convertError(t, options) # "none"

\* convert(options)
convert(t, options) ==
    /\ t \in Ids
    /\ IF convertRejects(t, options)
       THEN /\ trackOp("convert", t, convertError(t, options))
            /\ UNCHANGED trk
       ELSE /\ trackOp("convert", t, "none")
            /\ trk' = [trk EXCEPT ![t].conversionChanges = options]
    /\ args' = <<>>
    /\ UNCHANGED <<ffProbeStream, tagObj, NEXT_ID, bowl>>

\* copyStream: structuredClone(this.changes) gives the copy a Tags object
\* of its own; conversionChanges of the copy stays {}.
copyStream(t) ==
    [newIngredient(trk[t].filePath, trk[t].stream, FALSE) EXCEPT
        !.tags = IF trk[t].tags = "none" THEN "none" ELSE "own",
        !.title = trk[t].title,
        !.dispositions = trk[t].dispositions,
        !.delay = trk[t].delay,
        !.codec = trk[t].codec,
        !.bitrate = trk[t].bitrate]

\* copy(): a new ingredient of the same class on the same file path and
\* FfprobeStream, with the next id, not original, then copyStream.
copy(t) ==
    /\ trackOp("copy", t, "none")
    /\ trk' = trk @@ (NEXT_ID :> copyStream(t))
    /\ tagObj' = tagObj @@ (NEXT_ID :> changesTags(t))
    /\ NEXT_ID' = NEXT_ID + 1
    /\ args' = <<>>
    /\ UNCHANGED <<ffProbeStream, bowl>>

\* A caller building the options of one track (input 1, output slot 0).
callBuildOptions(t) ==
    /\ trackOp("buildOptions", t, "none")
    /\ args' = buildOptions(t, 1, 0)
    /\ UNCHANGED <<ffProbeStream, trk, tagObj, NEXT_ID, bowl>>

\* ------------------------------------------------ source container (b.mkv)
addCopiedIngredient_noGuard(t) ==
    /\ trackOp("addCopiedIngredient", t, "none")
    /\ bowl' = Append(bowl, t)
    /\ args' = <<>>
    /\ UNCHANGED <<ffProbeStream, trk, tagObj, NEXT_ID>>

\* IngredientBowl.addCopiedIngredient(ingredient)
addCopiedIngredient(t) ==
    /\ trackOp("addCopiedIngredient", t, "none")
    /\ bowl' = IF trk[t].isOriginal THEN bowl ELSE Append(bowl, t)
    /\ args' = <<>>
    /\ UNCHANGED <<ffProbeStream, trk, tagObj, NEXT_ID>>

\* IngredientBowl.removeCopiedIngredient(ingredient)
removeCopiedIngredient(t) ==
    /\ trackOp("removeCopiedIngredient", t, "none")
    /\ bowl' = IF trk[t].isOriginal \/ indexOf(bowl, t) = 0 THEN bowl
               ELSE splice(bowl, indexOf(bowl, t))
    /\ args' = <<>>
    /\ UNCHANGED <<ffProbeStream, trk, tagObj, NEXT_ID>>

\* ------------------------------------------------------------ mix, cancel
push_inPlace(entry, e) ==
    /\ Len(statusHistory) < MaxLog
    /\ statusHistory' = [statusHistory EXCEPT ![Len(statusHistory)] = entry]
    /\ logBy' = [logBy EXCEPT ![Len(logBy)] = e]

\* this.statusHistory.push(entry), for command e
push(entry, e) ==
    /\ Len(statusHistory) < MaxLog
    /\ statusHistory' = Append(statusHistory, entry)
    /\ logBy' = Append(logBy, e)

\* The two checks mix() makes before it creates the command object.
mixPrecondition_noOutputCheck ==
    IF Len(ingredients) = 0 THEN "BowlMixNoIngredientsError" ELSE "none"

mixPrecondition ==
    IF output = "" THEN "BowlMixNoOutputError"
    ELSE IF Len(ingredients) = 0 THEN "BowlMixNoIngredientsError"
    ELSE "none"

\* mix(onStatusChange): the synchronous part, up to and including run().
\* The command object is stored in ffmpegCommand before the inputs are
\* grouped; run() only schedules the spawn, the engine's start event comes
\* later.
mix ==
    IF mixPrecondition # "none" THEN
        /\ lastOp' = Op("mix", 0, mixPrecondition, <<>>, FALSE, FALSE)
        /\ UNCHANGED <<output, ingredients, chapters, chapterChanges, execVars>>
        /\ quiet
    ELSE
        /\ nextCmd <= MaxExec
        /\ ffmpegCommand' = nextCmd
        /\ nextCmd' = nextCmd + 1
        /\ IF output \in ingredientInputsMapKeys THEN
               /\ proc' = [proc EXCEPT ![nextCmd] = "created"]
               /\ lastOp' = Op("mix", nextCmd, "BowlMixInvalidOutputError",
                               collidingIds, FALSE, FALSE)
               /\ args' = <<>>
           ELSE IF buildChaptersText = "RangeError" THEN
               /\ proc' = [proc EXCEPT ![nextCmd] = "created"]
               /\ lastOp' = Op("mix", nextCmd, "RangeError", <<>>, FALSE, FALSE)
               /\ args' = <<>>
           ELSE
               /\ proc' = [proc EXCEPT ![nextCmd] = "pending"]
               /\ lastOp' = Op("mix", nextCmd, "none", <<>>, FALSE, FALSE)
               /\ args' = commandArguments
        /\ UNCHANGED <<output, ingredients, chapters, chapterChanges,
                       statusHistory, logBy, trackVars, saladVars>>

\* FfmpegCommand.kill('SIGKILL'): the signal reaches the subprocess of the
\* command if it has one that is running; a command without a running
\* subprocess is left as it is.
kill(e) == [proc EXCEPT ![e] = IF @ = "running" THEN "killed" ELSE @]

\* The guard of cancelMixing().
cancelRejected_handleOnly == ffmpegCommand = 0

cancelRejected ==
    ffmpegCommand = 0 \/ ~(status.state = "mixing" \/ status.state = "paused")

\* cancelMixing()
cancelMixing ==
    IF cancelRejected THEN
        /\ lastOp' = Op("cancel", ffmpegCommand, "NotStarted", <<>>, FALSE, FALSE)
        /\ UNCHANGED <<output, ingredients, chapters, chapterChanges, execVars>>
        /\ quiet
    ELSE
        /\ proc' = kill(ffmpegCommand)
        /\ push([status EXCEPT !.state = "canceled"], ffmpegCommand)
        /\ lastOp' = Op("cancel", ffmpegCommand, "none", <<>>, FALSE,
                        proc[ffmpegCommand] = "running")
        /\ UNCHANGED <<output, ingredients, chapters, chapterChanges,
                       ffmpegCommand, nextCmd>>
        /\ quiet

\* ------------------------------------------- engine event handlers of mix()
\* .on('start')
onStart(e) ==
    /\ push([state |-> "mixing", fullFfmpegCommand |-> TRUE, codecData |-> FALSE,
             progress |-> FALSE, error |-> FALSE], e)
    /\ lastOp' = Op("start", e, "none", <<>>, TRUE, FALSE)

\* .on('codecData')
onCodecData(e) ==
    /\ push([status EXCEPT !.state = "mixing", !.codecData = TRUE], e)
    /\ lastOp' = Op("codecData", e, "none", <<>>, TRUE, FALSE)

\* .on('progress')
onProgress(e) ==
    /\ push([status EXCEPT !.state = "mixing", !.progress = TRUE], e)
    /\ lastOp' = Op("progress", e, "none", <<>>, TRUE, FALSE)

onError_noSuppress(e, killedMessage) ==
    /\ push([status EXCEPT !.state = "error", !.error = TRUE], e)
    /\ lastOp' = Op("error", e, IF killedMessage THEN "killed" ELSE "none", <<>>, TRUE, FALSE)

\* .on('error'): killedMessage is whether err.message starts with
\* 'ffmpeg was killed with signal SIGKILL'.
onError(e, killedMessage) ==
    IF killedMessage THEN
        /\ lastOp' = Op("error", e, "killed", <<>>, FALSE, FALSE)
        /\ UNCHANGED <<statusHistory, logBy>>
    ELSE
        /\ push([status EXCEPT !.state = "error", !.error = TRUE], e)
        /\ lastOp' = Op("error", e, "none", <<>>, TRUE, FALSE)

\* .on('end')
onEnd(e) ==
    /\ push([status EXCEPT !.state = "done", !.error = FALSE], e)
    /\ lastOp' = Op("end", e, "none", <<>>, TRUE, FALSE)

\* ------------------------------------------------ the engine (environment)
\* The subprocess of a command whose run() was called is spawned and emits
\* start; a running subprocess emits codecData and progress and then exactly
\* one of end and error; a subprocess that received SIGKILL emits the error
\* whose message names the signal.
frame ==
    /\ UNCHANGED <<output, ingredients, chapters, chapterChanges,
                   ffmpegCommand, nextCmd>>
    /\ quiet

EngineStart(e) ==
    /\ proc[e] = "pending"
    /\ proc' = [proc EXCEPT ![e] = "running"]
    /\ onStart(e)
    /\ frame

EngineCodecData(e) ==
    /\ proc[e] = "running"
    /\ onCodecData(e)
    /\ UNCHANGED proc
    /\ frame

EngineProgress(e) ==
    /\ proc[e] = "running"
    /\ onProgress(e)
    /\ UNCHANGED proc
    /\ frame

EngineEnd(e) ==
    /\ proc[e] = "running"
    /\ proc' = [proc EXCEPT ![e] = "ended"]
    /\ onEnd(e)
    /\ frame

EngineError(e) ==
    /\ proc[e] \in {"pending", "running"}
    /\ proc' = [proc EXCEPT ![e] = "ended"]
    /\ onError(e, FALSE)
    /\ frame

EngineKilled(e) ==
    /\ proc[e] = "killed"
    /\ proc' = [proc EXCEPT ![e] = "ended"]
    /\ onError(e, TRUE)
    /\ frame

\* A running subprocess gets SIGKILL from outside the program (the operator,
\* the system running out of memory): the engine emits the same error as
\* after kill('SIGKILL').
EngineKilledOutside(e) ==
    /\ proc[e] = "running"
    /\ proc' = [proc EXCEPT ![e] = "ended"]
    /\ onError(e, TRUE)
    /\ frame

\* ------------------------------------------------------------ VideoSalad
\* get mixingBowls / ingredientBowls: the ids of the bowls not removed.
mixingBowls == {b \in DOMAIN mixingBowlMap : ~mixingBowlMap[b].removed}

ingredientBowls == {b \in DOMAIN ingredientBowlMap : ~ingredientBowlMap[b].removed}

\* Bowl.ingredients of the IngredientBowl of file f.
bowlIngredients(f) == IF f = "a.mkv" THEN <<1>> ELSE bowl

\* get ingredients: the tracks of the enumerated source containers.
saladIngredients ==
    {t \in Ids : \E b \in ingredientBowls :
        \E i \in 1..Len(bowlIngredients(ingredientBowlMap[b].bowl)) :
            bowlIngredients(ingredientBowlMap[b].bowl)[i] = t}

getMixingBowl_anyBowl(id) ==
    IF id \notin DOMAIN mixingBowlMap THEN NotFound("MixingBowl", id) ELSE NoError

\* getMixingBowl / getAnyMixingBowl: what the lookup throws.
getMixingBowl(id) ==
    IF id \notin DOMAIN mixingBowlMap \/ mixingBowlMap[id].removed
    THEN NotFound("MixingBowl", id) ELSE NoError

\* getIngredientBowl / getAnyIngredientBowl
getIngredientBowl(id) ==
    IF id \notin DOMAIN ingredientBowlMap \/ ingredientBowlMap[id].removed
    THEN NotFound("IngredientBowl", id) ELSE NoError

\* getIngredient
getIngredient(id) ==
    IF id \in saladIngredients THEN NoError ELSE NotFound("StreamIngredient", id)

\* getChaptersIngredient
getChaptersIngredient(id) ==
    IF \E b \in ingredientBowls : chaptersIngredientId(ingredientBowlMap[b].bowl) = id
    THEN NoError ELSE NotFound("ChaptersIngredient", id)

\* The first error of a list of lookups, NoError when all succeed.
firstThrown(lookups) ==
    IF \E i \in 1..Len(lookups) : lookups[i] # NoError
    THEN lookups[CHOOSE i \in 1..Len(lookups) :
                    /\ lookups[i] # NoError
                    /\ \A j \in 1..(i - 1) : lookups[j] = NoError]
    ELSE NoError

\* resolveItems(ids): the lookups in the order it makes them.
resolveItems(mixingBowlId, ingredientBowlId, ingredientId, ingredientIds, chaptersId) ==
    firstThrown(
        (IF mixingBowlId # undefined THEN <<getMixingBowl(mixingBowlId)>> ELSE <<>>)
        \o (IF ingredientBowlId # undefined
            THEN <<getIngredientBowl(ingredientBowlId)>> ELSE <<>>)
        \o (IF ingredientId # undefined THEN <<getIngredient(ingredientId)>> ELSE <<>>)
        \o [i \in 1..Len(ingredientIds) |-> getIngredient(ingredientIds[i])]
        \o (IF chaptersId # undefined THEN <<getChaptersIngredient(chaptersId)>> ELSE <<>>))

\* What a VideoSalad call leaves alone, and its outcome.
saladOpOn(name, id, ids, err) ==
    /\ thrown' = err
    /\ lastOp' = Op(name, id, err.error, ids, FALSE, FALSE)
    /\ args' = <<>>
    /\ UNCHANGED <<chapterChanges, ffmpegCommand, nextCmd, trackVars>>

saladOp(name, id, err) == saladOpOn(name, id, <<>>, err)

\* The lists of files given to importBowls: distinct files.
Batches ==
    {fs \in UNION {[1..n -> ImportFiles] : n \in 1..MaxBatch} :
        \A i, j \in 1..Len(fs) : i # j => fs[i] # fs[j]}

\* importBowls(filePaths) up to its await: one Initialize promise per file.
\* The model has one batch in flight and probes a registered file no more.
importBowls(filePaths) ==
    /\ initResults = <<>>
    /\ \A i \in 1..Len(filePaths) :
          \A b \in DOMAIN ingredientBowlMap : ingredientBowlMap[b].bowl # filePaths[i]
    /\ initResults' = [i \in 1..Len(filePaths) |->
                          [filePath |-> filePaths[i], status |-> "pending",
                           reason |-> "", id |-> undefined]]
    /\ lastOp' = Op("importBowls", undefined, "none", <<>>, FALSE, FALSE)
    /\ args' = <<>>
    /\ UNCHANGED <<output, ingredients, chapters, chapterChanges, execVars,
                   trackVars, ingredientBowlMap, mixingBowlMap, BowlNEXT_ID,
                   metadata, thrown>>

\* What IngredientBowl.Initialize rejects with for a file, "" when it
\* constructs the bowl.
InitializeError(f) ==
    IF f = "missing.mkv" THEN "BowlAccessError"
    ELSE IF f = "dir" THEN "BowlFileTypeError"
    ELSE IF f = "text.txt" THEN "BowlFFProbeError"
    ELSE ""

\* IngredientBowl.Initialize of the i-th file settles: rejected, or fulfilled
\* with a new IngredientBowl, which takes the next Bowl id.
InitializeSettles(i) ==
    /\ i \in 1..Len(initResults)
    /\ initResults[i].status = "pending"
    /\ IF InitializeError(initResults[i].filePath) # ""
       THEN /\ initResults' = [initResults EXCEPT
                   ![i].status = "rejected",
                   ![i].reason = InitializeError(initResults[i].filePath)]
            /\ UNCHANGED BowlNEXT_ID
       ELSE /\ BowlNEXT_ID < MaxBowls
            /\ initResults' = [initResults EXCEPT
                   ![i].status = "fulfilled", ![i].id = BowlNEXT_ID]
            /\ BowlNEXT_ID' = BowlNEXT_ID + 1
    /\ lastOp' = Op("Initialize", i, "none", <<>>, FALSE, FALSE)
    /\ args' = <<>>
    /\ UNCHANGED <<output, ingredients, chapters, chapterChanges, execVars,
                   trackVars, ingredientBowlMap, mixingBowlMap, metadata, thrown>>

\* The reasons of the rejected results, in the order of the batch.
initErrors ==
    [i \in 1..Len(SelectSeq(initResults, LAMBDA r : r.status = "rejected")) |->
        [error |-> SelectSeq(initResults, LAMBDA r : r.status = "rejected")[i].reason,
         path |-> SelectSeq(initResults, LAMBDA r : r.status = "rejected")[i].filePath]]

\* The registry entries of the fulfilled results.
RECURSIVE registered(_, _)
registered(map, results) ==
    IF results = <<>> THEN map
    ELSE registered(
            IF Head(results).status = "fulfilled"
            THEN map @@ (Head(results).id :> [removed |-> FALSE,
                                              bowl |-> Head(results).filePath])
            ELSE map,
            Tail(results))

importIngredientBowls_partial ==
    /\ initResults # <<>>
    /\ \A i \in 1..Len(initResults) : initResults[i].status # "pending"
    /\ ingredientBowlMap' = registered(ingredientBowlMap, initResults)
    /\ IF \E i \in 1..Len(initResults) : initResults[i].status = "rejected"
       THEN saladOp("importBowls", undefined, ImportBowlError(initErrors))
       ELSE saladOp("importBowls", undefined, NoError)
    /\ initResults' = <<>>
    /\ UNCHANGED <<output, ingredients, chapters, statusHistory, logBy, proc,
                   mixingBowlMap, BowlNEXT_ID, metadata>>

\* importIngredientBowls after Promise.allSettled: all results are in.
importIngredientBowls ==
    /\ initResults # <<>>
    /\ \A i \in 1..Len(initResults) : initResults[i].status # "pending"
    /\ IF \E i \in 1..Len(initResults) : initResults[i].status = "rejected"
       THEN /\ saladOp("importBowls", undefined, ImportBowlError(initErrors))
            /\ UNCHANGED ingredientBowlMap
       ELSE /\ saladOp("importBowls", undefined, NoError)
            /\ ingredientBowlMap' = registered(ingredientBowlMap, initResults)
    /\ initResults' = <<>>
    /\ UNCHANGED <<output, ingredients, chapters, statusHistory, logBy, proc,
                   mixingBowlMap, BowlNEXT_ID, metadata>>

\* Whether track t is one of the tracks of the source container of file f.
inBowl(t, f) == \E i \in 1..Len(bowlIngredients(f)) : bowlIngredients(f)[i] = t

\* MixingBowl.removeIngredient applied to list: the first occurrence of t is
\* spliced out, a track that is not there is left alone.
withoutFirst(list, t) ==
    IF indexOf(list, t) = 0 THEN list ELSE splice(list, indexOf(list, t))

\* removeIngredient called for each element of removals in turn.
RECURSIVE removeEach(_, _)
removeEach(list, removals) ==
    IF removals = <<>> THEN list
    ELSE removeEach(withoutFirst(list, Head(removals)), Tail(removals))

affectedMixingBowls_distinct(f) ==
    SelectSeq([i \in 1..Len(ingredients) |->
                  IF inBowl(ingredients[i], f)
                     /\ \A j \in 1..(i - 1) : ingredients[j] # ingredients[i]
                  THEN ingredients[i] ELSE 0],
              LAMBDA t : t # 0)

\* removeIngredientBowl, affectedMixingBowls[bowl.id]: the entries of the
\* output container's track list that are tracks of the source container of
\* file f, one for each time a track is listed.
affectedMixingBowls(f) == SelectSeq(ingredients, LAMBDA t : inBowl(t, f))

\* removeImportedBowl(ingredientBowlId): resolveItems, then
\* removeIngredientBowl, which calls removeIngredient on every output
\* container of the registry, removed or not, for each affected entry.
removeImportedBowl(id) ==
    LET err == resolveItems(undefined, id, undefined, <<>>, undefined)
        removals == IF err.error = "none" /\ DOMAIN mixingBowlMap # {}
                    THEN affectedMixingBowls(ingredientBowlMap[id].bowl) ELSE <<>>
    IN  /\ saladOpOn("removeImportedBowl", id, removals, err)
        /\ ingredients' = removeEach(ingredients, removals)
    /\ UNCHANGED <<output, chapters, statusHistory, logBy, proc, ingredientBowlMap,
                   mixingBowlMap, BowlNEXT_ID, metadata, initResults>>

\* createBowls([outputFilePath]): the output container of the model is
\* constructed and registered.
createBowls(p) ==
    /\ DOMAIN mixingBowlMap = {}
    /\ BowlNEXT_ID < MaxBowls
    /\ saladOp("createBowls", BowlNEXT_ID, NoError)
    /\ output' = p
    /\ mixingBowlMap' = (BowlNEXT_ID :> [removed |-> FALSE])
    /\ BowlNEXT_ID' = BowlNEXT_ID + 1
    /\ UNCHANGED <<ingredients, chapters, statusHistory, logBy, proc,
                   ingredientBowlMap, metadata, initResults>>

\* The updates given to updateBowl: output '' and tags "undefined" stand for
\* a key left out; 9 is no track, 99 no chapter list, and the updates that
\* name one of the two also carry an output path and tags.
Updates ==
    {u \in [output : {"", "new.mkv"}, tags : {"undefined", "t"},
            ingredientIds : {<<>>, <<1>>, <<2, 1>>, <<1, 9>>},
            chaptersIngredientId : {undefined, chaptersIngredientId("b.mkv"), 99}] :
        /\ u.output = "" <=> u.tags = "undefined"
        /\ (u.ingredientIds = <<1, 9>> \/ u.chaptersIngredientId = 99)
              => u.output # ""}

\* updateMixingBowl, "updates.ingredients": the tracks missing from the
\* update are removed, then the tracks the container lacks are added.
updatedIngredients_asGiven(ids) == IF ids = <<>> THEN ingredients ELSE ids

updatedIngredients(ids) ==
    IF ids = <<>> THEN ingredients
    ELSE LET has(list, t) == \E i \in 1..Len(list) : list[i] = t
             kept == removeEach(ingredients,
                                SelectSeq(ingredients, LAMBDA t : ~has(ids, t)))
         IN  kept \o SelectSeq(ids, LAMBDA t : ~has(kept, t))

updateBowl_applyFirst(id, updates) ==
    /\ saladOpOn("updateBowl", id, updates.ingredientIds,
                 resolveItems(id, undefined, undefined, updates.ingredientIds,
                              updates.chaptersIngredientId))
    /\ output' = IF updates.output # "" THEN updates.output ELSE output
    /\ metadata' = IF updates.tags # "undefined" THEN updates.tags ELSE metadata
    /\ UNCHANGED <<ingredients, chapters>>
    /\ UNCHANGED <<statusHistory, logBy, proc, ingredientBowlMap, mixingBowlMap,
                   BowlNEXT_ID, initResults>>

\* updateBowl(bowlId, updates): resolveItems, then updateMixingBowl.
updateBowl(id, updates) ==
    /\ saladOpOn("updateBowl", id, updates.ingredientIds,
                 resolveItems(id, undefined, undefined, updates.ingredientIds,
                              updates.chaptersIngredientId))
    /\ IF thrown'.error = "none"
       THEN /\ Len(updatedIngredients(updates.ingredientIds)) <= MaxIngredients
            /\ output' = IF updates.output # "" THEN updates.output ELSE output
            /\ metadata' = IF updates.tags # "undefined" THEN updates.tags ELSE metadata
            /\ ingredients' = updatedIngredients(updates.ingredientIds)
            /\ chapters' = IF updates.chaptersIngredientId # undefined THEN TRUE
                           ELSE chapters
       ELSE UNCHANGED <<output, metadata, ingredients, chapters>>
    /\ UNCHANGED <<statusHistory, logBy, proc, ingredientBowlMap, mixingBowlMap,
                   BowlNEXT_ID, initResults>>

\* removeBowl(bowlId): removeMixingBowl looks the bowl up with
\* getAnyMixingBowl, cancels it when it is mixing, and marks it removed.
removeBowl(id) ==
    /\ IF id \notin DOMAIN mixingBowlMap THEN
           /\ saladOp("removeBowl", id, NotFound("MixingBowl", id))
           /\ UNCHANGED <<statusHistory, logBy, proc, mixingBowlMap>>
       ELSE IF status.state \in {"mixing", "paused"} THEN
           IF cancelRejected THEN
               /\ saladOp("removeBowl", id, [NoError EXCEPT !.error = "Error"])
               /\ UNCHANGED <<statusHistory, logBy, proc, mixingBowlMap>>
           ELSE
               /\ saladOp("removeBowl", id, NoError)
               /\ proc' = kill(ffmpegCommand)
               /\ push([status EXCEPT !.state = "canceled"], ffmpegCommand)
               /\ mixingBowlMap' = [mixingBowlMap EXCEPT ![id].removed = TRUE]
       ELSE
           /\ saladOp("removeBowl", id, NoError)
           /\ mixingBowlMap' = [mixingBowlMap EXCEPT ![id].removed = TRUE]
           /\ UNCHANGED <<statusHistory, logBy, proc>>
    /\ UNCHANGED <<output, ingredients, chapters, ingredientBowlMap, BowlNEXT_ID,
                   metadata, initResults>>

\* addIngredientToBowl(bowlId, ingredientId): resolveItems, then
\* MixingBowl.addIngredient.
addIngredientToBowl(id, t) ==
    /\ saladOp("addIngredientToBowl", id,
               resolveItems(id, undefined, t, <<>>, undefined))
    /\ IF thrown'.error = "none"
       THEN /\ Len(ingredients) < MaxIngredients
            /\ ingredients' = Append(ingredients, t)
       ELSE UNCHANGED ingredients
    /\ UNCHANGED <<output, chapters, statusHistory, logBy, proc, ingredientBowlMap,
                   mixingBowlMap, BowlNEXT_ID, metadata, initResults>>

\* removeIngredientFromBowl(bowlId, ingredientId): resolveItems, then
\* MixingBowl.removeIngredient.
removeIngredientFromBowl(id, t) ==
    /\ saladOp("removeIngredientFromBowl", id,
               resolveItems(id, undefined, t, <<>>, undefined))
    /\ ingredients' = IF thrown'.error # "none" \/ indexOf(ingredients, t) = 0
                      THEN ingredients
                      ELSE splice(ingredients, indexOf(ingredients, t))
    /\ UNCHANGED <<output, chapters, statusHistory, logBy, proc, ingredientBowlMap,
                   mixingBowlMap, BowlNEXT_ID, metadata, initResults>>

\* The caller holding the MixingBowl that createBowls returned calls mix().
mixCreated ==
    /\ DOMAIN mixingBowlMap # {}
    /\ mix

\* ---------------------------------------------------------- specification
Next ==
    \/ \E p \in OutputPaths : setOutput(p)
    \/ \E t \in Tracks : addIngredient(t)
    \/ \E t \in Tracks : removeIngredient(t)
    \/ mix
    \/ cancelMixing
    \/ \E e \in 1..MaxExec : EngineStart(e)
    \/ \E e \in 1..MaxExec : EngineCodecData(e)
    \/ \E e \in 1..MaxExec : EngineProgress(e)
    \/ \E e \in 1..MaxExec : EngineEnd(e)
    \/ \E e \in 1..MaxExec : EngineError(e)
    \/ \E e \in 1..MaxExec : EngineKilled(e)

Spec == Init /\ [][Next]_vars

\* The same with subprocesses that can be killed from outside.
NextKill ==
    \/ Next
    \/ \E e \in 1..MaxExec : EngineKilledOutside(e)

SpecKill == Init /\ [][NextKill]_vars

\* The container and its chapter list being edited and mixed, the engine
\* not yet having answered.
NextMix ==
    \/ \E p \in OutputPaths : setOutput(p)
    \/ \E t \in Tracks : addIngredient(t)
    \/ \E t \in Tracks : removeIngredient(t)
    \/ \E c \in BOOLEAN : setChapters(c)
    \/ \E i \in Chapters, f \in ChapterFields : setChapterField(i, f)
    \/ mix

SpecMix == Init /\ [][NextMix]_vars

\* The container being filled with tracks of both files, the tracks being
\* delayed, and mix() synthesizing the options.
NextSynth ==
    \/ \E t \in Streams : addIngredient(t)
    \/ \E t \in Streams : removeIngredient(t)
    \/ \E t \in Streams, d \in Delays : setDelay(t, d)
    \/ \E c \in BOOLEAN : setChapters(c)
    \/ mix

SpecSynth == Init /\ [][NextSynth]_vars

\* The tracks of b.mkv, the file of the chapter list, being selected and
\* delayed, the chapter list being assigned and its entry being given a
\* time base and a title, and mix() synthesizing the options.
ChapterTracks == {2, 3}

NextChapters ==
    \/ \E t \in Streams : addIngredient(t)
    \/ \E t \in ChapterTracks, d \in Delays : setDelay(t, d)
    \/ \E c \in BOOLEAN : setChapters(c)
    \/ \E i \in Chapters, f \in {"timeBase", "title"} : setChapterField(i, f)
    \/ mix

InitChapters == Init /\ output = "out.mkv"

SpecChapters == InitChapters /\ [][NextChapters]_vars

\* The video and the audio track and their copies being written, converted
\* and copied, and the source container of b.mkv being given and losing
\* tracks.
TrackIds == 1..(3 + MaxTrackOps)
Subjects == TrackIds \ {3}

NextTrack ==
    \/ \E t \in Subjects, n \in TagNames, v \in TagValues : setTag(t, n, v)
    \/ \E t \in Subjects, v \in TagValues : setTitle(t, v)
    \/ \E t \in Subjects, v \in TagValues : setLanguage(t, v)
    \/ \E t \in Subjects, a \in TagsArguments : setTags(t, a)
    \/ \E t \in Subjects, d \in Dispositions : setDispositions(t, d)
    \/ \E t \in Subjects, d \in Delays : setDelay(t, d)
    \/ \E t \in Subjects : setBitrate(t, Bitrate)
    \/ \E t \in Subjects, o \in ConversionRequests : convert(t, o)
    \/ \E t \in Subjects : copy(t)
    \/ \E t \in Subjects : callBuildOptions(t)
    \/ \E t \in TrackIds : addCopiedIngredient(t)
    \/ \E t \in TrackIds : removeCopiedIngredient(t)

\* The output container stays as constructed: new MixingBowl().
InitTrack == Init /\ output = ""

SpecTrack == InitTrack /\ [][NextTrack]_vars

\* The video and the audio track and their copies being converted with
\* valid and invalid options objects, given a bit rate, copied and asked for
\* their options.
NextConvert ==
    \/ \E t \in Subjects, o \in ConversionOptions : convert(t, o)
    \/ \E t \in Subjects : setBitrate(t, Bitrate)
    \/ \E t \in Subjects : copy(t)
    \/ \E t \in Subjects : callBuildOptions(t)

SpecConvert == InitTrack /\ [][NextConvert]_vars

\* The facade with both files imported: the output container being
\* created, updated, mixed and removed, source containers being removed.
\* 0 and 1 are the ids of the source containers, 2 that of the output
\* container, 3 the id of no bowl; 9 is the id of no track.
NamedBowls == {0, 2, 3}
NamedTracks == {1, 2, 9}

PlainUpdates ==
    {u \in Updates : u.ingredientIds \in {<<>>, <<2, 1>>}
                       /\ u.chaptersIngredientId = undefined}

\* Ids of containers that become registered (0 a source container, 2 the
\* output container) and of tracks that exist.
RegisteredBowls == {0, 2}
ExistingTracks == {1, 2}

NextSalad ==
    \/ \E id \in RegisteredBowls : removeImportedBowl(id)
    \/ \E p \in {"out.mkv"} : createBowls(p)
    \/ \E id \in RegisteredBowls, u \in PlainUpdates : updateBowl(id, u)
    \/ \E id \in RegisteredBowls : removeBowl(id)
    \/ \E id \in RegisteredBowls, t \in ExistingTracks : addIngredientToBowl(id, t)
    \/ \E id \in RegisteredBowls, t \in ExistingTracks : removeIngredientFromBowl(id, t)
    \/ mixCreated
    \/ \E e \in 1..MaxExec : EngineStart(e)
    \/ \E e \in 1..MaxExec : EngineKilled(e)

\* The state after importBowls(['a.mkv', 'b.mkv']) on a new VideoSalad.
InitSalad ==
    /\ InitObjects
    /\ output = ""
    /\ ingredientBowlMap = (0 :> [removed |-> FALSE, bowl |-> "a.mkv"])
                            @@ (1 :> [removed |-> FALSE, bowl |-> "b.mkv"])
    /\ mixingBowlMap = <<>>
    /\ BowlNEXT_ID = 2

SpecSalad == InitSalad /\ [][NextSalad]_vars

\* The facade with both files imported and no container being mixed: the
\* output container being created, updated with ids that exist and ids that
\* do not, and removed, source containers being removed.
NextLookup ==
    \/ \E id \in NamedBowls : removeImportedBowl(id)
    \/ \E p \in {"out.mkv"} : createBowls(p)
    \/ \E id \in NamedBowls, u \in Updates : updateBowl(id, u)
    \/ \E id \in NamedBowls : removeBowl(id)
    \/ \E id \in NamedBowls, t \in NamedTracks : addIngredientToBowl(id, t)
    \/ \E id \in NamedBowls, t \in NamedTracks : removeIngredientFromBowl(id, t)

SpecLookup == InitSalad /\ [][NextLookup]_vars

\* Batches of files being imported into a new VideoSalad, their probes
\* settling in any order, and source containers being removed.
NextImport ==
    \/ \E fs \in Batches : importBowls(fs)
    \/ \E i \in 1..MaxBatch : InitializeSettles(i)
    \/ importIngredientBowls
    \/ \E id \in 0..MaxBowls : removeImportedBowl(id)

SpecImport == InitTrack /\ [][NextImport]_vars

\* ================================================================ claims
anyCollision == \E i \in 1..Len(ingredients) : filePath(ingredients[i]) = output

noSubprocessStarted ==
    \A e \in 1..MaxExec : proc'[e] \in {"pending", "running"} => proc'[e] = proc[e]

\* C1: mix() on a container whose output path is the source file path of a
\* selected track raises the collision error with the id of every selected
\* track of that path, starts no subprocess and appends no status entry.
C1_CollisionRaised ==
    [][(mix /\ anyCollision) =>
          /\ lastOp'.err = "BowlMixInvalidOutputError"
          /\ lastOp'.ids = SelectSeq(ingredients, LAMBDA t : filePath(t) = output)
          /\ noSubprocessStarted
          /\ statusHistory' = statusHistory]_vars

C1_Witness ==
    /\ lastOp.op = "mix"
    /\ lastOp.err = "BowlMixInvalidOutputError"
    /\ Len(ingredients) = 2
    /\ lastOp.ids = <<1, 1>>

\* C2: mix() without an output path raises the no-output error, mix() with an
\* output path and no tracks raises the no-ingredients error; in both cases
\* the status log is unchanged and no subprocess is started.
C2_PreconditionErrors ==
    [][mix =>
          /\ output = "" =>
                /\ lastOp'.err = "BowlMixNoOutputError"
                /\ statusHistory' = statusHistory
                /\ proc' = proc
          /\ (output # "" /\ Len(ingredients) = 0) =>
                /\ lastOp'.err = "BowlMixNoIngredientsError"
                /\ statusHistory' = statusHistory
                /\ proc' = proc]_vars

C2_Witness ==
    /\ lastOp.op = "mix"
    /\ lastOp.err = "BowlMixNoOutputError"
    /\ Len(ingredients) > 0
    /\ statusHistory = <<IdleStatus>>

\* C3: when a mix() call whose three preconditions hold returns, the last
\* status-log entry has state mixing.
C3_MixingOnReturn ==
    (lastOp.op = "mix" /\ lastOp.err = "none") => status.state = "mixing"

\* C4: cancel() while the current status is mixing appends exactly one entry,
\* of state canceled; the engine's error event that reports the kill signal
\* appends no entry and invokes no callback.
C4_CancelThenKilledSilent ==
    [][/\ (cancelMixing /\ status.state = "mixing") =>
             /\ Len(statusHistory') = Len(statusHistory) + 1
             /\ SubSeq(statusHistory', 1, Len(statusHistory)) = statusHistory
             /\ statusHistory'[Len(statusHistory')].state = "canceled"
       /\ \A e \in 1..MaxExec : EngineKilled(e) =>
             /\ statusHistory' = statusHistory
             /\ lastOp'.cb = FALSE]_vars

C4_Witness ==
    /\ lastOp.op = "error"
    /\ lastOp.err = "killed"
    /\ status.state = "canceled"

\* C5: cancel() while the current status is idle, done, error or canceled
\* raises the not-started error, sends no signal and leaves the status log
\* unchanged; cancel() is accepted only from mixing or paused.
C5_CancelRejected ==
    [][cancelMixing =>
          /\ status.state \in {"idle", "done", "error", "canceled"} =>
                /\ lastOp'.err = "NotStarted"
                /\ lastOp'.sig = FALSE
                /\ proc' = proc
                /\ statusHistory' = statusHistory
          /\ lastOp'.err = "none" => status.state \in {"mixing", "paused"}]_vars

C5_Witness ==
    /\ lastOp.op = "cancel"
    /\ lastOp.err = "NotStarted"
    /\ status.state = "done"
    /\ ffmpegCommand # 0

EngineEvent(e) ==
    \/ EngineCodecData(e)
    \/ EngineProgress(e)
    \/ EngineEnd(e)
    \/ EngineError(e)
    \/ EngineKilled(e)

\* C6: once the current status is done, error or canceled, no later engine
\* event of the execution it was recorded for appends a status entry.
C6_TerminalIsFinal ==
    [][\A e \in 1..MaxExec :
          (status.state \in Terminal /\ logBy[Len(logBy)] = e /\ EngineEvent(e))
              => statusHistory' = statusHistory]_vars

\* C7: the status log starts as the single entry idle, and every step leaves
\* the existing entries unchanged and in place and appends at most one entry.
C7_AppendOnly ==
    /\ statusHistory = <<IdleStatus>>
    /\ [][/\ Len(statusHistory') \in {Len(statusHistory), Len(statusHistory) + 1}
          /\ SubSeq(statusHistory', 1, Len(statusHistory)) = statusHistory]_vars

C7_Witness ==
    /\ Len(statusHistory) >= 4
    /\ statusHistory[1].state = "idle"
    /\ statusHistory[2].state = "mixing"
    /\ statusHistory[3].progress
    /\ status.state = "done"

\* C8 (its safety part): an execution has at most one terminal entry in the
\* status log, and every other entry of that execution is a mixing entry
\* placed before it.
C8_OneTerminalLast ==
    \A e \in 1..MaxExec : \A i, j \in 1..Len(statusHistory) :
        (/\ logBy[i] = e
         /\ logBy[j] = e
         /\ i # j
         /\ statusHistory[i].state \in Terminal)
            => (j < i /\ statusHistory[j].state = "mixing")

\* C9: mix() raises only the three precondition errors.
C9_OnlyPreconditionErrors ==
    lastOp.op = "mix" =>
        lastOp.err \in {"none", "BowlMixNoOutputError", "BowlMixNoIngredientsError",
                        "BowlMixInvalidOutputError"}

\* C10: at every moment the container has at most one live engine subprocess.
C10_OneSubprocess ==
    Cardinality({e \in 1..MaxExec : proc[e] = "running"}) <= 1

\* ------------------------------------------ reading a synthesized list
\* mix() returned without raising; args is what it gave the command.
mixed == lastOp.op = "mix" /\ lastOp.err = "none"

\* Positions of the input declarations, the chapter input first.
inputPositions == {p \in 1..Len(args) : args[p].opt = "-i"}

fileInputPositions == {p \in inputPositions : args[p].value # "metadataStream"}

\* The number (from 0) of the input declared at position p.
inputNumber(p) == Cardinality({q \in inputPositions : q < p})

\* The time offset that applies to the input declared at position p.
offsetAt(p) == IF p > 1 /\ args[p - 1].opt = "-itsoffset" THEN args[p - 1].num ELSE 0

\* Positions of the mapping arguments of the track groups; the stream copy
\* argument that follows a mapping argument names the output slot.
mapPositions == {p \in 1..Len(args) : args[p].opt = "-map"}

slotAt(p) == args[p + 1].slot

\* (file path, delay) of the track at position i of the container
pathAndDelay(i) == <<trk[ingredients[i]].filePath, trk[ingredients[i]].delay>>

\* C11: in the synthesized list no two file inputs share both file path and
\* delay, two tracks of the same (file path, delay) are mapped from the same
\* input, and the number of file inputs is the number of distinct
\* (file path, delay) pairs of the selected tracks, next to one chapter input.
C11_InputsInjective ==
    mixed =>
        /\ \A p, q \in fileInputPositions :
              (args[p].value = args[q].value /\ offsetAt(p) = offsetAt(q)) => p = q
        /\ \A p, q \in mapPositions :
              pathAndDelay(slotAt(p) + 1) = pathAndDelay(slotAt(q) + 1)
                  => args[p].input = args[q].input
        /\ Cardinality(fileInputPositions)
              = Cardinality({pathAndDelay(i) : i \in 1..Len(ingredients)})
        /\ Cardinality(inputPositions \ fileInputPositions) = 1

C11_Witness ==
    /\ mixed
    /\ Len(ingredients) = 2
    /\ trk[ingredients[1]].filePath = trk[ingredients[2]].filePath
    /\ trk[ingredients[1]].delay # trk[ingredients[2]].delay
    /\ Cardinality(fileInputPositions) = 2

\* C12: the track groups of the synthesized list appear in strictly
\* ascending output slot order and the chapter-mapping argument, if any,
\* comes before all of them, whatever the order the inputs were grouped in.
C12_GroupsAscending ==
    mixed =>
        /\ \A p, q \in mapPositions : p < q => slotAt(p) < slotAt(q)
        /\ \A c \in 1..Len(args) : \A p \in mapPositions :
              args[c].opt = "-map_chapters" => c < p

C12_Witness ==
    /\ mixed
    /\ optionsList # sort(optionsList)
    /\ \E c \in 1..Len(args) : args[c].opt = "-map_chapters"
    /\ Cardinality(mapPositions) = 2

\* C13: the input index k of a track's mapping argument names the k-th input
\* declaration (the chapter input being number 0); that declaration has the
\* track's file path and is preceded by a time offset equal to the track's
\* delay exactly when the delay is not 0; and the stream index is the
\* track's index within its file.
C13_MapNamesInput ==
    mixed =>
        \A p \in mapPositions :
            LET t == ingredients[slotAt(p) + 1]
            IN  /\ \E d \in fileInputPositions :
                      /\ inputNumber(d) = args[p].input
                      /\ args[d].value = trk[t].filePath
                      /\ offsetAt(d) = trk[t].delay
                      /\ (d > 1 /\ args[d - 1].opt = "-itsoffset") <=> trk[t].delay # 0
                /\ args[p].stream = probedIndex(trk[t].stream)

C13_Witness ==
    /\ mixed
    /\ ingredients = <<1, 3>>
    /\ trk[3].delay = 1
    /\ trk[1].delay = 0
    /\ Cardinality(inputPositions) = 3
    /\ \E p \in mapPositions : args[p].input = 2 /\ args[p].stream = 1

\* C14: synthesis emits exactly one track group per position of the track
\* list, and the group of position i maps the track at position i to output
\* slot i.
C14_OneGroupPerPosition ==
    mixed =>
        /\ Cardinality(mapPositions) = Len(ingredients)
        /\ \A i \in 1..Len(ingredients) : \E p \in mapPositions :
              /\ slotAt(p) = i - 1
              /\ args[p].stream = probedIndex(trk[ingredients[i]].stream)

\* ------------------------------------------------- reading track changes
\* Some write operation on track t (tags, dispositions, delay, bitrate,
\* convert).
trackWrite(t) ==
    \/ \E n \in TagNames, v \in TagValues : setTag(t, n, v)
    \/ \E v \in TagValues : setTitle(t, v)
    \/ \E v \in TagValues : setLanguage(t, v)
    \/ \E a \in TagsArguments : setTags(t, a)
    \/ \E d \in Dispositions : setDispositions(t, d)
    \/ \E d \in Delays : setDelay(t, d)
    \/ setBitrate(t, Bitrate)
    \/ \E o \in ConversionRequests : convert(t, o)

\* The metadata arguments among the options of track t.
metadataOptions(t) ==
    SelectSeq(buildOptions(t, 1, 0), LAMBDA o : o.opt = "-metadata:s")

\* The metadata argument for a tag written with v: `name=` for the explicit
\* unset, `name=value` otherwise.
writtenForm(name, v) ==
    Option("-metadata:s", 0, -1, -1, 0, name, IF v = "undefined" THEN "" ELSE v, FALSE)

\* C15: copy() gives a track with a new id, not original, on the same file
\* path and probed stream; a write to one of two tracks of the same probed
\* stream leaves the tags, dispositions and options of the other unchanged;
\* and converting a copied audio track to opus with a bit rate puts the
\* libopus argument and then the bit rate argument into the copy's options.
C15_CopyIndependent ==
    [][\A t \in TrackIds :
          /\ copy(t) =>
                /\ NEXT_ID \notin Ids
                /\ ~trk'[NEXT_ID].isOriginal
                /\ trk'[NEXT_ID].filePath = trk[t].filePath
                /\ trk'[NEXT_ID].stream = trk[t].stream
          /\ trackWrite(t) =>
                \A u \in Ids \ {t} :
                    trk[u].stream = trk[t].stream =>
                        /\ tags(u)' = tags(u)
                        /\ dispositions(u)' = dispositions(u)
                        /\ buildOptions(u, 1, 0)' = buildOptions(u, 1, 0)
          /\ (t \in Ids /\ trk[t].stream = 2 /\ ~trk[t].isOriginal
                /\ convert(t, request("opus", {Bitrate}))) =>
                \E i, j \in 1..Len(buildOptions(t, 1, 0)') :
                    /\ i < j
                    /\ buildOptions(t, 1, 0)'[i].value = "libopus"
                    /\ buildOptions(t, 1, 0)'[j].opt = "-b"
                    /\ buildOptions(t, 1, 0)'[j].num = Bitrate]_vars

\* C16: immediately after copy() the options of the copy equal the options
\* of the track it was copied from, and so does the pending conversion.
C16_CopyEqualsOriginal ==
    [][\A t, c \in TrackIds :
          (copy(t) /\ c = NEXT_ID) =>
              /\ buildOptions(c, 1, 0)' = buildOptions(t, 1, 0)
              /\ trk'[c].conversionChanges = trk[t].conversionChanges]_vars

\* C17: after a tag write (setTag, tags setter, title setter, language
\* setter) on a track of any class, reading that tag returns the written
\* value (the language setter stores '' for undefined).
C17_ReadAfterWrite ==
    [][\A t \in TrackIds :
          /\ \A n \in TagNames, v \in TagValues :
                setTag(t, n, v) => getTag(t, n)' = v
          /\ \A v \in TagValues : setTitle(t, v) => title(t)' = v
          /\ \A v \in TagValues :
                setLanguage(t, v) => language(t)' = (IF v = "undefined" THEN "" ELSE v)
          /\ \A a \in TagsArguments : \A n \in TagNames :
                (setTags(t, a) /\ tagsArgument(t, a)[n] # Absent)
                    => read(tags(t), n)' = tagsArgument(t, a)[n]]_vars

\* C18: in the options of a track a title or other tag written as undefined
\* gives the metadata argument `name=`, one written with a value gives
\* `name=value`, a track whose tags were never written gives no metadata
\* argument, and a copy gives the same metadata arguments as its source.
C18_MetadataForms ==
    [][\A t \in TrackIds :
          /\ \A n \in TagNames, v \in TagValues :
                setTag(t, n, v) =>
                    \E i \in 1..Len(metadataOptions(t)') :
                        metadataOptions(t)'[i] = writtenForm(n, v)
          /\ \A v \in TagValues :
                setTitle(t, v) =>
                    \E i \in 1..Len(metadataOptions(t)') :
                        metadataOptions(t)'[i] = writtenForm("title", v)
          /\ \A d \in Delays :
                (setDelay(t, d) /\ trk[t].tags = "none" /\ trk[t].title = Absent)
                    => metadataOptions(t)' = <<>>
          /\ \A c \in TrackIds :
                (copy(t) /\ c = NEXT_ID) => metadataOptions(c)' = metadataOptions(t)]_vars

\* C19: no operation on a track changes the probed snapshot of a stream.
C19_ProbeNeverMutated == [][ffProbeStream' = ffProbeStream]_vars

\* C20: addCopiedIngredient and removeCopiedIngredient called with an
\* original track change nothing and raise nothing, and the source container
\* always lists its original tracks once each, in probe order.
C20_OriginalsKept ==
    /\ [](SelectSeq(bowl, LAMBDA t : trk[t].isOriginal) = <<2, 3>>)
    /\ [][\A t \in TrackIds :
             (/\ t \in Ids
              /\ trk[t].isOriginal
              /\ addCopiedIngredient(t) \/ removeCopiedIngredient(t))
                 => (bowl' = bowl /\ lastOp'.err = "none")]_vars

C20_Witness ==
    /\ lastOp.op = "removeCopiedIngredient"
    /\ lastOp.exec = 2
    /\ Len(bowl) = 3
    /\ ~trk[bowl[3]].isOriginal

\* ---------------------------------------------------------------- facade
\* C21: after removeImportedBowl(id) the source container is no longer
\* enumerated, its tracks are no longer enumerated, a lookup of the id fails
\* with not-found, and the registry still holds the entry.
C21_SourceContainerRemoved ==
    [][\A id \in NamedBowls :
          (/\ lastOp'.op = "removeImportedBowl"
           /\ lastOp'.exec = id
           /\ removeImportedBowl(id)
           /\ thrown'.error = "none") =>
              /\ id \in DOMAIN ingredientBowlMap'
              /\ id \notin ingredientBowls'
              /\ \A t \in Ids : inBowl(t, ingredientBowlMap[id].bowl)
                                    => t \notin saladIngredients'
              /\ getIngredientBowl(id)' = NotFound("IngredientBowl", id)]_vars

\* What an operation on the output container leaves as it is when it fails.
containerUnchanged == UNCHANGED <<output, metadata, ingredients, chapters>>

\* The operations that name an output container and go through its lookup.
namesBowl(id) ==
    /\ lastOp'.exec = id
    /\ \/ lastOp'.op = "updateBowl" /\ \E u \in Updates : updateBowl(id, u)
       \/ lastOp'.op = "addIngredientToBowl"
             /\ \E t \in NamedTracks : addIngredientToBowl(id, t)
       \/ lastOp'.op = "removeIngredientFromBowl"
             /\ \E t \in NamedTracks : removeIngredientFromBowl(id, t)

\* C22: removeBowl(id) on a registered output container takes it out of the
\* enumeration and keeps its registry entry, its status log and the tracks of
\* the source containers; the container stays removed, and updateBowl,
\* addIngredientToBowl and removeIngredientFromBowl naming it fail with
\* not-found of kind output container and change nothing.
C22_OutputContainerRemoved ==
    [][\A id \in NamedBowls :
          /\ (/\ id \in DOMAIN mixingBowlMap
              /\ lastOp'.op = "removeBowl"
              /\ lastOp'.exec = id
              /\ removeBowl(id)) =>
                /\ thrown'.error = "none"
                /\ id \in DOMAIN mixingBowlMap'
                /\ id \notin mixingBowls'
                /\ SubSeq(statusHistory', 1, Len(statusHistory)) = statusHistory
                /\ UNCHANGED <<bowl, ingredientBowlMap>>
                /\ saladIngredients' = saladIngredients
          /\ (id \in DOMAIN mixingBowlMap /\ mixingBowlMap[id].removed) =>
                /\ id \in DOMAIN mixingBowlMap' /\ mixingBowlMap'[id].removed
                /\ namesBowl(id) =>
                      (thrown' = NotFound("MixingBowl", id) /\ containerUnchanged)]_vars

C22_Witness ==
    /\ lastOp.op = "updateBowl"
    /\ thrown = NotFound("MixingBowl", 2)
    /\ 2 \in DOMAIN mixingBowlMap
    /\ mixingBowlMap[2].removed
    /\ status.state = "canceled"

\* The ids an operation names that belong to nothing a caller can look up.
missing(names) ==
    {n \in names :
        \/ n[1] = "MixingBowl" /\ n[2] \notin mixingBowls
        \/ n[1] = "IngredientBowl" /\ n[2] \notin ingredientBowls
        \/ n[1] = "StreamIngredient" /\ n[2] \notin saladIngredients
        \/ n[1] = "ChaptersIngredient"
              /\ \A b \in ingredientBowls :
                    chaptersIngredientId(ingredientBowlMap[b].bowl) # n[2]}

\* The outcome required of an operation that named `names`.
notFoundOrDone(names) ==
    IF missing(names) # {}
    THEN /\ thrown'.error = "VideoSaladNotFoundError"
         /\ <<thrown'.type, thrown'.id>> \in missing(names)
         /\ containerUnchanged
         /\ UNCHANGED <<ingredientBowlMap, mixingBowlMap, statusHistory, bowl>>
    ELSE thrown'.error = "none"

\* C23: an operation that names a container, track or chapter list that does
\* not exist fails with a not-found error carrying the kind and the id of
\* one of them and changes nothing (also when updateBowl carries a new output
\* path and tags); with every id found it does not fail.
C23_NotFoundChangesNothing ==
    [][\A id \in NamedBowls :
          lastOp'.exec = id =>
              /\ lastOp'.op = "updateBowl" =>
                    \A u \in Updates :
                        updateBowl(id, u) =>
                            notFoundOrDone(
                                {<<"MixingBowl", id>>}
                                \cup {<<"StreamIngredient", u.ingredientIds[i]>> :
                                        i \in 1..Len(u.ingredientIds)}
                                \cup (IF u.chaptersIngredientId # undefined
                                      THEN {<<"ChaptersIngredient",
                                              u.chaptersIngredientId>>}
                                      ELSE {}))
              /\ lastOp'.op \in {"addIngredientToBowl", "removeIngredientFromBowl"} =>
                    \A t \in NamedTracks :
                        (addIngredientToBowl(id, t) \/ removeIngredientFromBowl(id, t))
                            => notFoundOrDone({<<"MixingBowl", id>>,
                                               <<"StreamIngredient", t>>})
              /\ (lastOp'.op = "removeImportedBowl" /\ removeImportedBowl(id))
                    => notFoundOrDone({<<"IngredientBowl", id>>})
              /\ (/\ lastOp'.op = "removeBowl"
                  /\ id \notin DOMAIN mixingBowlMap
                  /\ removeBowl(id))
                    => notFoundOrDone({<<"MixingBowl", id>>})]_vars

C23_Witness ==
    /\ lastOp.op = "updateBowl"
    /\ thrown = NotFound("StreamIngredient", 9)
    /\ 2 \in mixingBowls
    /\ output = "out.mkv"
    /\ metadata = "undefined"
    /\ ingredients = <<2>>

\* The files of the batch whose Initialize was rejected.
rejectedFiles ==
    {initResults[i].filePath : i \in {j \in 1..Len(initResults) :
                                        initResults[j].status = "rejected"}}

\* The files of the enumerated source containers.
enumeratedFiles == {ingredientBowlMap[b].bowl : b \in ingredientBowls}

\* C24: when the probes of a batch have settled, in whatever order, a batch
\* with a failed file is rejected with one aggregate error holding one import
\* error per failed file and registers nothing; a batch without one returns
\* and every file of it is registered and enumerated.
C24_ImportAllOrNothing ==
    [][importIngredientBowls =>
          IF rejectedFiles # {}
          THEN /\ thrown'.error = "VideoSaladImportBowlError"
               /\ Len(thrown'.bowlImportErrors) = Cardinality(rejectedFiles)
               /\ {thrown'.bowlImportErrors[i].path :
                      i \in 1..Len(thrown'.bowlImportErrors)} = rejectedFiles
               /\ \A i \in 1..Len(thrown'.bowlImportErrors) :
                     thrown'.bowlImportErrors[i].error
                         = InitializeError(thrown'.bowlImportErrors[i].path)
               /\ ingredientBowlMap' = ingredientBowlMap
               /\ enumeratedFiles' = enumeratedFiles
          ELSE /\ thrown'.error = "none"
               /\ enumeratedFiles' = enumeratedFiles
                     \cup {initResults[i].filePath : i \in 1..Len(initResults)}]_vars

C24_Witness ==
    /\ lastOp.op = "importBowls"
    /\ initResults = <<>>
    /\ thrown.error = "VideoSaladImportBowlError"
    /\ Len(thrown.bowlImportErrors) = 1
    /\ BowlNEXT_ID = 1
    /\ ingredientBowlMap = <<>>

\* ------------------------------------------------------------ conversion
\* Track t exists and is an audio track.
isAudio(t) == t \in Ids /\ type(trk[t].stream) = "audio"

\* C25: convert(options) on an audio track with a codec other than opus
\* raises the unsupported-codec error and leaves the pending conversion
\* request, the overlay, the effective codec and the options unchanged.
C25_UnsupportedCodec ==
    [][\A t \in TrackIds, o \in ConversionOptions :
          (isAudio(t) /\ o.codec # "opus" /\ convert(t, o)) =>
              /\ lastOp'.err = "Unsupported audio codec"
              /\ trk' = trk
              /\ tagObj' = tagObj
              /\ codec(t)' = codec(t)
              /\ buildOptions(t, 1, 0)' = buildOptions(t, 1, 0)]_vars

C25_Witness ==
    /\ lastOp.op = "convert"
    /\ lastOp.err = "Unsupported audio codec"
    /\ trk[lastOp.exec].conversionChanges = request("opus", {Bitrate})

\* The declared domains of the opus fields: compression_level an integer in
\* 0..10, frame_duration one of six numbers, vbr one of three words.
inDeclaredDomain(o) ==
    /\ \A v \in o.compression_level : v \in {2 * n : n \in 0..10}
    /\ o.frame_duration \subseteq {5, 10, 20, 40, 80, 120}
    /\ o.vbr \subseteq {"off", "on", "constrained"}

\* C26: convert with codec opus on an audio track (bit rate absent or
\* positive) is accepted, and recorded, exactly when every supplied field
\* lies in its declared domain; a rejected request raises the invalid-options
\* error and leaves the track as it was.
C26_OpusValidation ==
    [][\A t \in TrackIds, o \in ConversionOptions :
          (/\ isAudio(t)
           /\ o.codec = "opus"
           /\ o.bitrate \subseteq {Bitrate}
           /\ convert(t, o)) =>
              IF inDeclaredDomain(o)
              THEN lastOp'.err = "none" /\ trk'[t].conversionChanges = o
              ELSE lastOp'.err = "Invalid OPUS conversion options" /\ trk' = trk]_vars

\* C27: convert with opus options whose bit rate is zero or negative is
\* rejected and records no conversion request.
C27_BitrateNotPositive ==
    [][\A t \in TrackIds, o \in ConversionOptions :
          (/\ isAudio(t)
           /\ o.codec = "opus"
           /\ \E v \in o.bitrate : v <= 0
           /\ convert(t, o)) =>
              (lastOp'.err # "none" /\ trk' = trk)]_vars

\* C28: setting bitrate on an audio track makes the track's effective codec
\* the codec of its conversion request, and its options afterwards hold the
\* bit rate argument with the value set.
C28_BitrateMakesRequest ==
    [][\A t \in TrackIds :
          setBitrate(t, Bitrate) =>
              /\ trk'[t].conversionChanges.codec = codec(t)
              /\ \E i \in 1..Len(buildOptions(t, 1, 0)') :
                    buildOptions(t, 1, 0)'[i]
                        = Option("-b", 0, -1, -1, Bitrate, "", "", FALSE)]_vars

\* C29: codec() of an audio track is the codec of its pending conversion
\* request when it has one and the probed codec otherwise.
C29_EffectiveCodec ==
    \A t \in Ids :
        type(trk[t].stream) = "audio" =>
            codec(t) = IF trk[t].conversionChanges.codec # "none"
                       THEN trk[t].conversionChanges.codec
                       ELSE ffProbeStream[trk[t].stream].codec_name

\* C30: the options of a track hold the stream-copy argument for its slot
\* exactly when the track has no pending conversion request; with one they
\* hold an encoder-selection argument for the slot instead.
C30_CopyIffNoConversion ==
    \A t \in Ids :
        LET o == buildOptions(t, 1, 0)
            copies == \E i \in 1..Len(o) : o[i].opt = "-c" /\ o[i].value = "copy"
            encodes == \E i \in 1..Len(o) : o[i].opt = "-c" /\ o[i].value # "copy"
        IN  IF trk[t].conversionChanges.codec = "none"
            THEN copies /\ ~encodes
            ELSE encodes /\ ~copies

\* ------------------------------------------------- input order, chapters
\* Position in the container's track list at which (file path, delay) k
\* first appears.
firstListed(k) ==
    CHOOSE i \in 1..Len(ingredients) :
        pathAndDelay(i) = k /\ \A j \in 1..(i - 1) : pathAndDelay(j) # k

\* The expected indices of the track groups built for the n-th file input,
\* in the order buildOptions is called.
processedOrder(n) ==
    SelectSeq([r \in 1..Len(optionsListOf(n)) |->
                  optionsListOf(n)[r].expectedIngredientIndex],
              LAMBDA x : x >= 0)

\* C31: the file inputs are declared in the order in which their
\* (file path, delay) first appears in the track list of the container, and
\* the tracks of one input are processed in the order of the track list.
C31_InputsInFirstAppearanceOrder ==
    mixed =>
        /\ \A p, q \in fileInputPositions :
              p < q => firstListed(<<args[p].value, offsetAt(p)>>)
                          < firstListed(<<args[q].value, offsetAt(q)>>)
        /\ \A n \in 1..Cardinality(inputKeys) :
              \A r1, r2 \in 1..Len(processedOrder(n)) :
                  r1 < r2 => processedOrder(n)[r1] < processedOrder(n)[r2]

\* C32: with a chapter list assigned, reading the time base and the title of
\* an entry returns (the override or the probed value), and serializing the
\* list yields the custom text when an entry is modified and no custom text
\* when none is.
C32_ChapterText ==
    chapters =>
        /\ \A i \in Chapters :
              timeBaseReturns(chapterChanges[i]) /\ titleReturns(chapterChanges[i])
        /\ buildChaptersText
              = IF \E i \in Chapters : isModified(chapterChanges[i])
                THEN "custom" ELSE "undefined"

\* Positions of the chapter-mapping arguments.
mapChaptersPositions == {c \in 1..Len(args) : args[c].opt = "-map_chapters"}

\* buildChaptersText returned a text.
customChaptersText == chapters /\ \E i \in Chapters : isModified(chapterChanges[i])

\* C33: `-map_chapters k` is in the synthesized list exactly when no custom
\* chapter text was generated and file input k has delay 0 and the file path
\* of the chapter list; there is at most one, and it comes before every
\* track group.
C33_MapChapters ==
    mixed =>
        /\ \A d \in fileInputPositions :
              (\E c \in mapChaptersPositions : args[c].input = inputNumber(d))
                  <=> (/\ chapters
                       /\ ~customChaptersText
                       /\ offsetAt(d) = 0
                       /\ args[d].value = chaptersFilePath)
        /\ \A c \in mapChaptersPositions :
              \E d \in fileInputPositions : args[c].input = inputNumber(d)
        /\ Cardinality(mapChaptersPositions) <= 1
        /\ \A c \in mapChaptersPositions : \A p \in mapPositions : c < p

C33_Witness ==
    /\ mixed
    /\ ingredients = <<1, 2>>
    /\ chapters /\ ~customChaptersText
    /\ \E c \in mapChaptersPositions : args[c].input = 2

\* ------------------------------------------- executions and their handle
\* The errors mix() raises for a container that cannot be mixed.
PreconditionErrors ==
    {"BowlMixNoOutputError", "BowlMixNoIngredientsError", "BowlMixInvalidOutputError"}

\* The execution the last status entry belongs to.
current == logBy[Len(logBy)]

\* C34: a mix() that fails with a precondition error while an execution is
\* mixing leaves the handle of that execution in place, and a cancel() that
\* follows it sends the terminate signal to the subprocess of that execution
\* (the only one there is).
C34_FailedMixKeepsHandle ==
    [][/\ (/\ status.state = "mixing"
           /\ lastOp'.op = "mix"
           /\ lastOp'.err \in PreconditionErrors)
             => ffmpegCommand' = ffmpegCommand
       /\ (/\ status.state = "mixing"
           /\ proc[current] = "running"
           /\ \A e \in 1..MaxExec : e # current => proc[e] \in {"unused", "created"}
           /\ lastOp.op = "mix"
           /\ lastOp.err \in PreconditionErrors
           /\ lastOp'.op = "cancel")
             => (lastOp'.sig /\ proc'[current] = "killed")]_vars

\* cancel() was never accepted: the status log holds no canceled entry.
neverCanceled == \A i \in 1..Len(statusHistory) : statusHistory[i].state # "canceled"

\* C35: an error event of the engine is left out of the status log only when
\* the current status is canceled; an error event that reports the kill
\* signal while the status is mixing and no cancel() was accepted appends a
\* terminal entry.
C35_KilledWhileMixingRecorded ==
    [][\A e \in 1..MaxExec :
          (/\ lastOp'.op = "error"
           /\ lastOp'.exec = e
           /\ EngineError(e) \/ EngineKilled(e) \/ EngineKilledOutside(e)) =>
              /\ statusHistory' = statusHistory => status.state = "canceled"
              /\ (status.state = "mixing" /\ neverCanceled) =>
                    /\ Len(statusHistory') = Len(statusHistory) + 1
                    /\ statusHistory'[Len(statusHistory')].state \in Terminal]_vars

\* The commands whose subprocess is running or about to be spawned.
live == {e \in 1..MaxExec : proc[e] \in {"pending", "running"}}

\* C36: when removeBowl(id) returns for a registered output container, no
\* subprocess of the container is running or about to be spawned.
C36_RemovedHasNoSubprocess ==
    [][\A id \in NamedBowls :
          (/\ lastOp'.op = "removeBowl"
           /\ lastOp'.exec = id
           /\ id \in DOMAIN mixingBowlMap
           /\ removeBowl(id)
           /\ thrown'.error = "none") => live' = {}]_vars

\* ------------------------------------------- track lists under the facade
\* The tracks a list holds.
tracksOf(list) == {list[i] : i \in 1..Len(list)}

C38_UpdateSelectsTracks ==
    [][\A id \in NamedBowls :
          (lastOp'.op = "updateBowl" /\ lastOp'.exec = id) =>
              \A u \in Updates :
                  (/\ u.ingredientIds # <<>>
                   /\ updateBowl(id, u)
                   /\ thrown'.error = "none") =>
                      LET ids == u.ingredientIds
                          old == SelectSeq(ingredients, LAMBDA t : t \in tracksOf(ids))
                          new == SelectSeq(ids, LAMBDA t : t \notin tracksOf(ingredients))
                      IN  /\ tracksOf(ingredients') = tracksOf(ids)
                          /\ ingredients' = old \o new]_vars

C38_Witness ==
    /\ lastOp.op = "updateBowl"
    /\ lastOp.err = "none"
    /\ lastOp.ids = <<2, 1>>
    /\ ingredients = <<1, 2>>

\* The operations that write a tag of a track.
TagWrites == {"setTag", "setTitle", "setLanguage", "setTags"}

\* C39: a tag write on one track leaves the tags and the options of every
\* other track as they were, whatever was written before, the same tag map
\* given to two tracks included.
C39_OverlaysNotAliased ==
    [][\A t \in TrackIds :
          (lastOp'.op \in TagWrites /\ lastOp'.exec = t /\ nOps' = nOps + 1) =>
              \A u \in Ids \ {t} :
                  /\ tags(u)' = tags(u)
                  /\ buildOptions(u, 1, 0)' = buildOptions(u, 1, 0)]_vars
====
